---- MODULE Spec2Model ----
(***************************************************************************)
(* Model of the email-agent send route (the Batch Dispatcher): the POST    *)
(* handler validates the request, then walks body.payloads in order,       *)
(* issuing one awaited fetch to the delivery provider per payload,         *)
(* recording one result per payload and sleeping between batches.          *)
(*                                                                         *)
(* The handler is one thread of control; the model has one action per      *)
(* stretch of code between two awaits:                                     *)
(*   POST          request parsed -> validation -> first fetch issued      *)
(*   FetchResolves the awaited fetch resolves with an HTTP response        *)
(*   FetchRejects  the awaited fetch rejects (the catch block)             *)
(*   JsonSettles   the awaited response.json().catch(...) settles          *)
(*   SleepElapses  the awaited cooldown sleep elapses                      *)
(*                                                                         *)
(* fetches, answers and sleeps are history variables: they record what the *)
(* handler did to the outside world and do not influence it.               *)
(*                                                                         *)
(* The draft route (one LLM call per request) is modelled the same way,    *)
(* and the page that drives both routes (draft runs and send runs over the *)
(* recipients of an automation) in the section "the page".                 *)
(*                                                                         *)
(* Specifications:                                                         *)
(*   Spec        the send route serving one request                        *)
(*   SpecClamp   the same over a wide range of cooldownMinutes             *)
(*   SpecLive    Spec under fair scheduling of the handler's continuations *)
(*   SpecRoutes  the send route and the draft route, one request each      *)
(*   SpecPage    the page: recipients created, draft and send runs, which  *)
(*               may overlap; the routes answer as SendRouteReplies and    *)
(*               DraftRouteReply say                                       *)
(*   SpecPageLive SpecPage with the awaited fetch of a send run settling   *)
(*   SpecResend  SpecPage with one more run                                *)
(*   SpecImports the page with CSV imports and duplication of the          *)
(*               automation as well, started where the log is nearly full  *)
(***************************************************************************)
EXTENDS Integers, Sequences, FiniteSets, TLC

(* ------------------------------ bounds -------------------------------- *)

\* longest payload list of a request
MaxMsgs == 3
\* explicit batchSize of a request ranges over -MaxBatch..MaxBatch (0 and
\* negative numbers are accepted by the handler)
MaxBatch == 2
\* explicit cooldownMinutes in the clamp specification ranges over
\* -MaxCooldown..MaxCooldown
MaxCooldown == 101

\* the page: recipients the user creates or imports, and the runs, imports
\* and duplications the user starts
MaxRecipients == 2
MaxClicks == 2

(* --------------------------- JavaScript values ------------------------ *)

\* an optional JSON field: None when the key is missing (undefined)
None == <<>>
Some(v) == <<v>>

Undefined == [t |-> "undefined"]
Null == [t |-> "null"]
Str(s) == [t |-> "string", s |-> s]
\* an Error instance with its message
Err(m) == [t |-> "Error", message |-> m]

Min(a, b) == IF a < b THEN a ELSE b
Max(a, b) == IF a > b THEN a ELSE b
Abs(a) == IF a < 0 THEN -a ELSE a

\* a ?? b on an optional field
Coalesce(opt, dflt) == IF opt = None THEN dflt ELSE opt[1]

\* a ?? b on JavaScript values: only undefined and null fall through
NullishOr(a, b) == IF a = Undefined \/ a = Null THEN b ELSE a

\* !x for an optional string field: missing or empty
Falsy(opt) == opt = None \/ opt = Some("")

\* a % b for a >= 0: NaN (None) when b is 0, sign of the dividend otherwise
JsRem(a, b) == IF b = 0 THEN None ELSE Some(a % Abs(b))

(* ------------------------------ constants ----------------------------- *)

DefaultBatchSize == 20
DefaultCooldownMinutes == 5
MsPerUnit == 1000
MinCooldownMs == 0
MaxCooldownMs == 15000

(* ------------------------------- inputs ------------------------------- *)

\* the id of the i-th message a request can carry
IdAt(i) == "r" \o ToString(i)

\* strictly increasing index sequences of length n over 1..MaxMsgs
Ascending(n) ==
    {s \in [1..n -> 1..MaxMsgs] : \A k \in 1..(n - 1) : s[k] < s[k + 1]}

\* payload lists: ordered selections of distinct messages, the empty list too
PayloadLists ==
    {[k \in 1..Len(s) |-> [id |-> IdAt(s[k])]] :
        s \in UNION {Ascending(n) : n \in 0..MaxMsgs}}

KeyValues == {None, Some(""), Some("re_key")}
FromValues == {None, Some(""), Some("Ann <ann@example.com>")}
BatchValues == {None} \cup {Some(b) : b \in (-MaxBatch)..MaxBatch}
CooldownValues == {None, Some(-5), Some(0), Some(100)}

SendRequestPayload ==
    [resendApiKey : KeyValues,
     from : FromValues,
     batchSize : BatchValues,
     cooldownMinutes : CooldownValues,
     payloads : {None} \cup {Some(p) : p \in PayloadLists}]

\* what the delivery provider can answer
Statuses == {200, 201, 429}
MessageValues == {Undefined, Null, Str(""), Str("rate limited")}
ErrorValues == {Undefined, Null, Str("too many")}
\* a response body: not JSON at all, the JSON literal null, or a JSON object
Bodies ==
    {[kind |-> "text"], [kind |-> "null"]} \cup
    [kind : {"object"}, message : MessageValues, error : ErrorValues]
\* what a rejected fetch can throw: an Error or some other value
Thrown == {Err("fetch failed"), Str("boom")}

(* --------------------------- pure functions --------------------------- *)

\* variant: the upper bound is not applied
withBoundsUncapped(value, min, max) == Max(value, min)

withBounds(value, min, max) == Min(Max(value, min), max)

\* const batchSize = body.batchSize ?? 20
BatchSizeOf(b) == Coalesce(b.batchSize, DefaultBatchSize)

\* const cooldownMs = withBounds((body.cooldownMinutes ?? 5) * 1000, 0, 15000)
CooldownMsOf(b) ==
    withBounds(Coalesce(b.cooldownMinutes, DefaultCooldownMinutes) * MsPerUnit,
               MinCooldownMs, MaxCooldownMs)

\* variant: the batch test is made on index instead of index + 1
isLastInBatchByIndex(i, bs, n) == JsRem(i, bs) = Some(0) /\ i + 1 < n

\* variant: the last index of the list counts as a batch boundary
isLastInBatchInclusive(i, bs, n) == JsRem(i + 1, bs) = Some(0) /\ i + 1 <= n

\* (index + 1) % batchSize === 0 && index + 1 < body.payloads.length
isLastInBatch(i, bs, n) == JsRem(i + 1, bs) = Some(0) /\ i + 1 < n

\* variant: a cooldown of 0 still sleeps
ShouldSleepNonNegative(last, ms) == last /\ ms >= 0

\* if (isLastInBatch && cooldownMs > 0)
ShouldSleep(last, ms) == last /\ ms > 0

\* variant: only status 200 counts as success
ResponseOkExact(status) == status = 200

\* response.ok: a status in the range 200-299
ResponseOk(status) == status \in 200..299

\* response.json().catch(() => ({})): a body that does not parse gives {}
EmptyObject == [kind |-> "object", message |-> Undefined, error |-> Undefined]
JsonOrEmpty(b) == IF b.kind = "text" THEN EmptyObject ELSE b

\* data?.message and data?.error: undefined unless data is an object
Field(data, f) == IF data.kind = "object" THEN data[f] ELSE Undefined

GenericError(status) == Str("Resend API error (" \o ToString(status) \o ")")

\* variant: the body is ignored
ErrorOfGeneric(data, status) == GenericError(status)

\* variant: the error field is preferred to the message field
ErrorOfErrorFirst(data, status) ==
    NullishOr(Field(data, "error"),
              NullishOr(Field(data, "message"), GenericError(status)))

\* data?.message ?? data?.error ?? `Resend API error (${response.status})`
ErrorOf(data, status) ==
    NullishOr(Field(data, "message"),
              NullishOr(Field(data, "error"), GenericError(status)))

\* variant: the thrown value's message is never used
CaughtMessageGeneric(e) == "Unexpected error"

\* error instanceof Error ? error.message : 'Unexpected error'
CaughtMessage(e) == IF e.t = "Error" THEN e.message ELSE "Unexpected error"

\* results.push({ id: payload.id, ok: true })
PushOk(res, id) == Append(res, [id |-> id, ok |-> TRUE])

\* results.push({ id: payload.id, ok: false, error: ... }) after a bad status
PushFailed(res, id, error) == Append(res, [id |-> id, ok |-> FALSE, error |-> error])

\* variant: the catch block records nothing
PushCaughtDropped(res, id, e) == res

\* results.push({ id: payload.id, ok: false, error: ... }) in the catch block
PushCaught(res, id, e) ==
    Append(res, [id |-> id, ok |-> FALSE, error |-> CaughtMessage(e)])

\* variant: the request is sent a second time
IssueFetchTwice(sent, id) == Append(Append(sent, id), id)

\* the fetch(RESEND_ENDPOINT, ...) call for one payload, as seen by the provider
IssueFetch(sent, id) == Append(sent, id)

\* index += 1
NextIndex(i) == i + 1

(* ------------------------------- state -------------------------------- *)

VARIABLES
    body,       \* the parsed request body
    pc,         \* where the handler is: start, fetch, json, sleep, done
    index,      \* the loop variable
    results,    \* the results array
    response,   \* the response whose body is being read, None otherwise
    reply,      \* the handler's HTTP reply, None until it returns
    fetches,    \* history: payload ids of the provider calls issued, in order
    answers,    \* history: how each provider call ended, Some(status) or None
    sleeps,     \* history: the cooldown sleeps taken, in order
    thrown      \* history: the values rejected fetches threw, with their call

\* the draft route handler (one request)
VARIABLES
    draftBody,      \* the parsed request body
    draftPc,        \* where the handler is: idle, start, fetch, text, json,
                    \* done, or threw when an exception left the handler
    draftResponse,  \* the LLM response whose body is being read, None otherwise
    draftReply,     \* the handler's HTTP reply, None until it returns
    llmCalls,       \* history: the requests sent to the LLM provider
    llmAnswer,      \* history: the LLM response received, None if none
    parses          \* history: the strings JSON.parse was called with

\* the page (the selected automation and the component state around it)
VARIABLES
    recipients,     \* automation.recipients
    automationStatus, \* automation.status: idle, drafting, sending
    logs,           \* automation.logs, newest first
    openAiKey,      \* the OpenAI key typed into the page, "" if none
    resendKey,      \* the Resend key typed into the page, "" if none
    isDrafting,     \* component state
    isSending,      \* component state
    sendError,      \* component state, None for null
    draftRun,       \* the running handleDraftEmails call, None if none
    sendRun,        \* the running handleSendEmails call, None if none
    draftRequests,  \* history: recipient ids of the /api/draft requests of
                    \* the current or last draft run, each awaited, drafted
                    \* or failed
    sendRequests,   \* history: the body of the last /api/send request, in a
                    \* sequence that is empty before the first
    received,       \* history: the results list the last send run got from
                    \* /api/send, in a sequence that is empty when it got none
    clicksLeft,     \* the runs, imports and duplications the user will
                    \* still start
    delivered,      \* history: for each recipient id, the number of send
                    \* runs whose results reported it ok
    created,        \* the number of recipient ids handed out so far
    automationId,   \* selectedAutomationId: 0 for the automation the page
                    \* starts with, counted up by each duplication
    csvUpload,      \* the file handleCsvUpload is parsing, None if none
    uploadError     \* component state, None for null

sendVars == <<body, pc, index, results, response, reply, fetches, answers,
              sleeps, thrown>>
draftVars == <<draftBody, draftPc, draftResponse, draftReply, llmCalls, llmAnswer,
              parses>>

\* what an action of the send route, or of the draft route, leaves alone
uiVars == <<recipients, automationStatus, logs, openAiKey, resendKey, isDrafting, isSending,
           sendError, draftRun, sendRun, draftRequests, sendRequests, received,
           clicksLeft, delivered, created, automationId, csvUpload, uploadError>>
outsideSend == <<draftVars, uiVars>>
outsideDraft == <<sendVars, uiVars>>
outsideUi == <<sendVars, draftVars>>

vars == <<sendVars, draftVars, uiVars>>

payloads == Coalesce(body.payloads, <<>>)
batchSize == BatchSizeOf(body)
cooldownMs == CooldownMsOf(body)
\* const payload = body.payloads[index]
payload == payloads[index + 1]

\* no request has reached the draft route
DraftIdle ==
    /\ draftBody = [openAiKey |-> None, openAiModel |-> None,
                    instructions |-> None, recipient |-> None]
    /\ draftPc = "idle"
    /\ draftResponse = None
    /\ draftReply = None
    /\ llmCalls = <<>>
    /\ llmAnswer = None
    /\ parses = <<>>

\* the page with no recipient, no key and nothing running, the log l, and
\* n runs, imports and duplications to come
PageWithLog(l, n) ==
    /\ recipients = <<>>
    /\ automationStatus = "idle"
    /\ logs = l
    /\ openAiKey = ""
    /\ resendKey = ""
    /\ isDrafting = FALSE
    /\ isSending = FALSE
    /\ sendError = None
    /\ draftRun = None
    /\ sendRun = None
    /\ draftRequests = <<>>
    /\ sendRequests = <<>>
    /\ received = <<>>
    /\ clicksLeft = n
    /\ delivered = <<>>
    /\ created = 0
    /\ automationId = 0
    /\ csvUpload = None
    /\ uploadError = None

\* the page as created
PageIdle == PageWithLog(<<>>, MaxClicks)

Init ==
    /\ DraftIdle
    /\ PageIdle
    /\ body \in SendRequestPayload
    /\ pc = "start"
    /\ index = 0
    /\ results = <<>>
    /\ response = None
    /\ reply = None
    /\ fetches = <<>>
    /\ answers = <<>>
    /\ sleeps = <<>>
    /\ thrown = <<>>

\* variant: the call for the following payload is issued without waiting
IterateEager(i, res) ==
    /\ index' = i
    /\ results' = res
    /\ response' = None
    /\ IF i < Len(payloads)
       THEN /\ fetches' =
                IF i + 1 < Len(payloads)
                THEN IssueFetch(IssueFetch(fetches, payloads[i + 1].id),
                                payloads[i + 2].id)
                ELSE IssueFetch(fetches, payloads[i + 1].id)
            /\ pc' = "fetch"
            /\ reply' = reply
       ELSE /\ fetches' = fetches
            /\ pc' = "done"
            /\ reply' = Some([status |-> 200, results |-> res])

\* variant: the loop test is index <= length; the iteration past the end reads
\* a field of an undefined payload in the try and again in the catch, and that
\* exception leaves the handler
IterateInclusive(i, res) ==
    /\ index' = i
    /\ results' = res
    /\ response' = None
    /\ reply' = reply
    /\ IF i < Len(payloads)
       THEN /\ fetches' = IssueFetch(fetches, payloads[i + 1].id)
            /\ pc' = "fetch"
       ELSE /\ fetches' = fetches
            /\ pc' = "threw"

\* the for statement's test and the start of its body, entered with index = i
\* and results = res: either the next fetch is issued or the handler returns
Iterate(i, res) ==
    /\ index' = i
    /\ results' = res
    /\ response' = None
    /\ IF i < Len(payloads)
       THEN /\ fetches' = IssueFetch(fetches, payloads[i + 1].id)
            /\ pc' = "fetch"
            /\ reply' = reply
       ELSE /\ fetches' = fetches
            /\ pc' = "done"
            /\ reply' = Some([status |-> 200, results |-> res])

\* the end of the loop body once this payload's result is in res
EndOfIteration(res) ==
    IF ShouldSleep(isLastInBatch(index, batchSize, Len(payloads)), cooldownMs)
    THEN /\ pc' = "sleep"
         /\ sleeps' = Append(sleeps, [after |-> index, ms |-> cooldownMs])
         /\ results' = res
         /\ response' = None
         /\ UNCHANGED <<index, reply, fetches>>
    ELSE /\ Iterate(NextIndex(index), res)
         /\ sleeps' = sleeps

\* variant: the sender address is checked before the API key
ValidationErrorFromFirst ==
    IF Falsy(body.from) THEN Some("Missing \"from\" address")
    ELSE IF Falsy(body.resendApiKey) THEN Some("Missing Resend API key")
    ELSE IF body.payloads = None \/ Len(payloads) = 0 THEN Some("No recipients to send")
    ELSE None

\* the three validation checks on a request body, in the order of the code
ValidationErrorOf(b) ==
    IF Falsy(b.resendApiKey) THEN Some("Missing Resend API key")
    ELSE IF Falsy(b.from) THEN Some("Missing \"from\" address")
    ELSE IF b.payloads = None \/ Len(b.payloads[1]) = 0 THEN Some("No recipients to send")
    ELSE None

\* the validation of the request being handled
ValidationError == ValidationErrorOf(body)

\* the handler from its entry to its first await inside the loop
POST ==
    /\ pc = "start"
    /\ IF ValidationError # None
       THEN /\ reply' = Some([status |-> 400, error |-> ValidationError[1]])
            /\ pc' = "done"
            /\ UNCHANGED <<index, results, response, fetches>>
       ELSE Iterate(0, <<>>)
    /\ UNCHANGED <<body, answers, sleeps, thrown>>
    /\ UNCHANGED outsideSend

\* the awaited fetch resolves with a response of the given status and body
FetchResolves(status, b) ==
    /\ pc = "fetch"
    /\ answers' = Append(answers, Some(status))
    /\ IF ResponseOk(status)
       THEN EndOfIteration(PushOk(results, payload.id))
       ELSE /\ response' = Some([status |-> status, body |-> b])
            /\ pc' = "json"
            /\ UNCHANGED <<index, results, reply, fetches, sleeps>>
    /\ UNCHANGED <<body, thrown>>
    /\ UNCHANGED outsideSend

\* the awaited fetch rejects: the catch block records the failure
FetchRejects(e) ==
    /\ pc = "fetch"
    /\ answers' = Append(answers, None)
    /\ thrown' = Append(thrown, [call |-> Len(answers) + 1, value |-> e])
    /\ EndOfIteration(PushCaught(results, payload.id, e))
    /\ UNCHANGED body
    /\ UNCHANGED outsideSend

\* the awaited response.json().catch(() => ({})) settles
JsonSettles ==
    /\ pc = "json"
    /\ LET data == JsonOrEmpty(response[1].body)
       IN EndOfIteration(
              PushFailed(results, payload.id, ErrorOf(data, response[1].status).s))
    /\ UNCHANGED <<body, answers, thrown>>
    /\ UNCHANGED outsideSend

\* the awaited sleep(cooldownMs) elapses
SleepElapses ==
    /\ pc = "sleep"
    /\ Iterate(NextIndex(index), results)
    /\ UNCHANGED <<body, answers, sleeps, thrown>>
    /\ UNCHANGED outsideSend

Next ==
    \/ POST
    \/ \E status \in Statuses, b \in Bodies : FetchResolves(status, b)
    \/ \E e \in Thrown : FetchRejects(e)
    \/ JsonSettles
    \/ SleepElapses

Spec == Init /\ [][Next]_vars

(* ---------------- the clamp specification (cooldown range) ------------ *)

\* requests that pass validation, with two messages and a batch size of one,
\* over a wide range of cooldownMinutes
ClampRequests ==
    [resendApiKey : {Some("re_key")},
     from : {Some("Ann <ann@example.com>")},
     batchSize : {Some(1)},
     cooldownMinutes : {None} \cup {Some(c) : c \in (-MaxCooldown)..MaxCooldown},
     payloads : {Some(<<[id |-> IdAt(1)], [id |-> IdAt(2)]>>)}]

InitClamp ==
    /\ DraftIdle
    /\ PageIdle
    /\ body \in ClampRequests
    /\ pc = "start"
    /\ index = 0
    /\ results = <<>>
    /\ response = None
    /\ reply = None
    /\ fetches = <<>>
    /\ answers = <<>>
    /\ sleeps = <<>>
    /\ thrown = <<>>

SpecClamp == InitClamp /\ [][Next]_vars

(* --------------------------- the draft route -------------------------- *)

\* requests to the draft route: key, model, instructions and the recipient's
\* name and email may each be missing; the templates only pass into the prompt
OpenAiKeyValues == {None, Some(""), Some("sk_key")}
ModelValues == {None, Some("gpt-4o")}
InstructionValues == {None, Some("Be brief")}
NameValues == {None, Some(""), Some("Ann")}
EmailValues == {None, Some(""), Some("ann@example.com")}
RecipientValues ==
    {None} \cup {Some([name |-> n, email |-> e]) : n \in NameValues, e \in EmailValues}

DraftPayload ==
    [openAiKey : OpenAiKeyValues,
     openAiModel : ModelValues,
     instructions : InstructionValues,
     recipient : RecipientValues]

DefaultModel == "gpt-4o-mini"
DefaultDraftInstructions == "Write a clear outreach email and finish with a direct CTA."

\* the strings the model's message content can be
FullDraftContent == "{\"subject\":\"Hi\",\"html\":\"<p>x</p>\",\"text\":\"x\"}"
SpacedDraftContent == " { \"subject\": \"Hi\", \"html\": \"<p>x</p>\", \"text\": \"x\" } "
PartialDraftContent == "{\"subject\":\"Hi\"}"
ContentStrings ==
    {"", "not json", FullDraftContent, SpacedDraftContent, PartialDraftContent}

\* JSON.parse on the content strings above: Some(value), or None when it throws
JsonParse(s) ==
    CASE s = FullDraftContent ->
            Some([subject |-> "Hi", html |-> "<p>x</p>", text |-> "x"])
      [] s = SpacedDraftContent ->
            Some([subject |-> "Hi", html |-> "<p>x</p>", text |-> "x"])
      [] s = PartialDraftContent -> Some([subject |-> "Hi"])
      [] OTHER -> None

\* the message of the SyntaxError JSON.parse throws depends on the engine
ParseErrorMessages ==
    {"Unexpected token o in JSON at position 1", "JSON.parse: unexpected character"}

\* what the LLM provider can answer: the body text, whether it is JSON, and
\* what data?.choices?.[0]?.message?.content is in it
LlmStatuses == {200, 401, 500}
LlmBodies ==
    {[raw |-> "Bad gateway", valid |-> FALSE, content |-> Undefined],
     [raw |-> "{\"error\":{\"message\":\"Incorrect API key\"}}", valid |-> TRUE,
      content |-> Undefined],
     [raw |-> "{\"choices\":[{\"message\":{\"content\":null}}]}", valid |-> TRUE,
      content |-> Null]} \cup
    {[raw |-> "{\"choices\":[{\"message\":{\"content\":...}}]}", valid |-> TRUE,
      content |-> Str(c)] : c \in ContentStrings}

\* variant: only undefined and null count as no content
JsFalsyNullish(v) == v = Undefined \/ v = Null

\* !x for a JavaScript value that is undefined, null or a string
JsFalsy(v) == v = Undefined \/ v = Null \/ v = Str("")

\* variant: only an absent key is rejected, an empty one is not
DraftKeyMissingOnlyAbsent(b) == b.openAiKey = None

\* !body.openAiKey
DraftKeyMissing(b) == Falsy(b.openAiKey)

\* !body.recipient?.email || !body.recipient?.name
DraftRecipientMissing(b) ==
    \/ b.recipient = None
    \/ Falsy(b.recipient[1].email)
    \/ Falsy(b.recipient[1].name)

\* variant: the recipient is checked before the API key
DraftValidationErrorRecipientFirst(b) ==
    IF DraftRecipientMissing(b) THEN Some("Recipient must include name and email")
    ELSE IF DraftKeyMissing(b) THEN Some("Missing OpenAI API key")
    ELSE None

\* the two validation checks, in the order of the code
DraftValidationError(b) ==
    IF DraftKeyMissing(b) THEN Some("Missing OpenAI API key")
    ELSE IF DraftRecipientMissing(b) THEN Some("Recipient must include name and email")
    ELSE None

\* the fetch to the chat completions endpoint, as seen by the provider
LlmRequest(b) ==
    [key |-> b.openAiKey,
     model |-> Coalesce(b.openAiModel, DefaultModel),
     instructions |-> Coalesce(b.instructions, DefaultDraftInstructions),
     recipient |-> b.recipient]

\* Response.json(value, { status })
JsonReply(status, value) == Some([status |-> status, json |-> value])

\* variant: the parsed draft is wrapped in an envelope
DraftSuccessWrapped(parsed) == JsonReply(200, [draft |-> parsed])

\* return Response.json(parsed)
DraftSuccess(parsed) == JsonReply(200, parsed)

\* variant: the raw content is left out of the error
DraftParseFailureNoRaw(detail, content) ==
    JsonReply(422, [error |-> "Could not parse model output", detail |-> detail])

\* the reply of the catch block around JSON.parse
DraftParseFailure(detail, content) ==
    JsonReply(422, [error |-> "Could not parse model output",
                    detail |-> detail,
                    raw |-> content])

\* the reply when !content
DraftNoContent == JsonReply(422, [error |-> "LLM did not return content"])

\* variant: every upstream failure is reported as 502
DraftUpstreamFailureBadGateway(status, errorBody) ==
    JsonReply(502, [error |-> "Failed to draft email", detail |-> errorBody])

\* the reply when !response.ok
DraftUpstreamFailure(status, errorBody) ==
    JsonReply(status, [error |-> "Failed to draft email", detail |-> errorBody])

\* the handler from its entry to the awaited fetch
DraftPOST ==
    /\ draftPc = "start"
    /\ IF DraftValidationError(draftBody) # None
       THEN /\ draftReply' = JsonReply(400, [error |-> DraftValidationError(draftBody)[1]])
            /\ draftPc' = "done"
            /\ llmCalls' = llmCalls
       ELSE /\ llmCalls' = Append(llmCalls, LlmRequest(draftBody))
            /\ draftPc' = "fetch"
            /\ draftReply' = draftReply
    /\ UNCHANGED <<draftBody, draftResponse, llmAnswer, parses>>
    /\ UNCHANGED outsideDraft

\* the awaited fetch resolves: the body is read as text or as JSON
DraftFetchResolves(status, b) ==
    /\ draftPc = "fetch"
    /\ llmAnswer' = Some([status |-> status, body |-> b])
    /\ parses' = parses
    /\ draftResponse' = Some([status |-> status, body |-> b])
    /\ draftPc' = IF ResponseOk(status) THEN "json" ELSE "text"
    /\ UNCHANGED <<draftBody, draftReply, llmCalls>>
    /\ UNCHANGED outsideDraft

\* the awaited fetch rejects: nothing catches it and it leaves the handler
DraftFetchRejects ==
    /\ draftPc = "fetch"
    /\ draftPc' = "threw"
    /\ UNCHANGED <<draftBody, draftResponse, draftReply, llmCalls, llmAnswer, parses>>
    /\ UNCHANGED outsideDraft

\* reading the body fails (the connection drops): the rejection of
\* response.text() or response.json() leaves the handler
DraftBodyFails ==
    /\ draftPc \in {"text", "json"}
    /\ draftPc' = "threw"
    /\ draftResponse' = None
    /\ UNCHANGED <<draftBody, draftReply, llmCalls, llmAnswer, parses>>
    /\ UNCHANGED outsideDraft

\* the awaited response.text() resolves
DraftTextSettles ==
    /\ draftPc = "text"
    /\ draftReply' = DraftUpstreamFailure(draftResponse[1].status,
                                          draftResponse[1].body.raw)
    /\ draftPc' = "done"
    /\ draftResponse' = None
    /\ UNCHANGED <<draftBody, llmCalls, llmAnswer, parses>>
    /\ UNCHANGED outsideDraft

\* the awaited response.json() settles: a body that is no JSON rejects and
\* the rejection leaves the handler; otherwise the content is parsed
DraftJsonSettles(detail) ==
    /\ draftPc = "json"
    /\ LET b == draftResponse[1].body
           content == b.content
       IN IF ~b.valid
          THEN /\ draftPc' = "threw"
               /\ draftReply' = draftReply
          ELSE /\ draftPc' = "done"
               /\ draftReply' =
                    IF JsFalsy(content) THEN DraftNoContent
                    ELSE IF JsonParse(content.s) # None
                         THEN DraftSuccess(JsonParse(content.s)[1])
                         ELSE DraftParseFailure(detail, content.s)
    /\ parses' = IF draftResponse[1].body.valid /\ ~JsFalsy(draftResponse[1].body.content)
                 THEN Append(parses, draftResponse[1].body.content.s)
                 ELSE parses
    /\ draftResponse' = None
    /\ UNCHANGED <<draftBody, llmCalls, llmAnswer>>
    /\ UNCHANGED outsideDraft

(* ------------- both routes, each serving one request ------------------ *)

\* requests to the send route in the two-route specification
RoutesSendRequests ==
    [resendApiKey : KeyValues,
     from : {None, Some("Ann <ann@example.com>")},
     batchSize : {Some(1)},
     cooldownMinutes : {None},
     payloads : {None, Some(<<>>), Some(<<[id |-> IdAt(1)], [id |-> IdAt(2)]>>)}]

InitRoutes ==
    /\ PageIdle
    /\ body \in RoutesSendRequests
    /\ pc = "start"
    /\ index = 0
    /\ results = <<>>
    /\ response = None
    /\ reply = None
    /\ fetches = <<>>
    /\ answers = <<>>
    /\ sleeps = <<>>
    /\ thrown = <<>>
    /\ draftBody \in DraftPayload
    /\ draftPc = "start"
    /\ draftResponse = None
    /\ draftReply = None
    /\ llmCalls = <<>>
    /\ llmAnswer = None
    /\ parses = <<>>

NextRoutes ==
    \/ POST
    \/ \E status \in Statuses, b \in Bodies : FetchResolves(status, b)
    \/ \E e \in Thrown : FetchRejects(e)
    \/ JsonSettles
    \/ SleepElapses
    \/ DraftPOST
    \/ \E status \in LlmStatuses, b \in LlmBodies : DraftFetchResolves(status, b)
    \/ DraftFetchRejects
    \/ DraftBodyFails
    \/ DraftTextSettles
    \/ \E detail \in ParseErrorMessages : DraftJsonSettles(detail)

SpecRoutes == InitRoutes /\ [][NextRoutes]_vars

(* ---------------- the send route under fair scheduling ---------------- *)

\* every awaited promise settles and its continuation is run: the provider
\* answers or the fetch throws, the body is read, the timer fires
Fairness ==
    /\ WF_vars(POST)
    /\ WF_vars(\/ \E status \in Statuses, b \in Bodies : FetchResolves(status, b)
               \/ \E e \in Thrown : FetchRejects(e))
    /\ WF_vars(JsonSettles)
    /\ WF_vars(SleepElapses)

SpecLive == Init /\ [][Next]_vars /\ Fairness

(* ------------------- the routes as a caller sees them ------------------ *)

\* what the delivery provider does with one message: it answers, or the fetch
\* throws
ProviderOutcomes ==
    [kind : {"response"}, status : Statuses, body : Bodies] \cup
    [kind : {"throw"}, value : Thrown]

\* the entry the loop body records for the payload id under one outcome
ResultOf(id, o) ==
    IF o.kind = "throw" THEN PushCaught(<<>>, id, o.value)[1]
    ELSE IF ResponseOk(o.status) THEN PushOk(<<>>, id)[1]
    ELSE PushFailed(<<>>, id, ErrorOf(JsonOrEmpty(o.body), o.status).s)[1]

\* the replies of the send route to the request b when the provider's
\* behaviour on each message is drawn from outs
SendRouteReplies(b, outs) ==
    IF ValidationErrorOf(b) # None
    THEN {[status |-> 400, error |-> ValidationErrorOf(b)[1]]}
    ELSE LET list == b.payloads[1]
         IN {[status |-> 200,
              results |-> [k \in 1..Len(list) |-> ResultOf(list[k].id, c[k])]] :
                 c \in [1..Len(list) -> outs]}

\* what the LLM provider does with one request: it answers, or the fetch or
\* the reading of the body rejects
LlmOutcomes ==
    [kind : {"response"}, status : LlmStatuses, body : LlmBodies] \cup
    {[kind |-> "reject"]}

\* the reply of the draft route to the request b under one outcome, None
\* when an exception leaves the handler
DraftRouteReply(b, o, detail) ==
    IF DraftValidationError(b) # None
    THEN JsonReply(400, [error |-> DraftValidationError(b)[1]])
    ELSE IF o.kind = "reject" THEN None
    ELSE IF ~ResponseOk(o.status) THEN DraftUpstreamFailure(o.status, o.body.raw)
    ELSE IF ~o.body.valid THEN None
    ELSE IF JsFalsy(o.body.content) THEN DraftNoContent
    ELSE IF JsonParse(o.body.content.s) # None
         THEN DraftSuccess(JsonParse(o.body.content.s)[1])
         ELSE DraftParseFailure(detail, o.body.content.s)

\* the send route's reply is one of SendRouteReplies: each recorded entry is
\* the entry of some outcome of the provider
SendRepliesCover ==
    (pc = "done" /\ reply # None) =>
        IF ValidationError # None
        THEN reply[1] \in SendRouteReplies(body, ProviderOutcomes)
        ELSE /\ reply[1].status = 200
             /\ Len(reply[1].results) = Len(payloads)
             /\ \A k \in 1..Len(payloads) :
                    \E o \in ProviderOutcomes :
                        reply[1].results[k] = ResultOf(payloads[k].id, o)

\* the draft route's reply, or the exception, is one of DraftRouteReply
DraftRepliesCover ==
    /\ draftPc = "done" =>
           \E o \in LlmOutcomes, d \in ParseErrorMessages :
               draftReply = DraftRouteReply(draftBody, o, d)
    /\ draftPc = "threw" =>
           \E o \in LlmOutcomes, d \in ParseErrorMessages :
               DraftRouteReply(draftBody, o, d) = None

(* ------------------------------- the page ------------------------------ *)

\* the page keeps the recipients of the selected automation; a draft run
\* (handleDraftEmails) and a send run (handleSendEmails) are asynchronous
\* handlers that close over the automation as rendered when the button was
\* clicked and update the current state by recipient id.  One action per
\* stretch of handler code between two awaits:
\*   DraftClick    entry -> first /api/draft request issued
\*   DraftSettles  the awaited draftWithOpenAI settles -> next request or end
\*   SendClick     entry -> the /api/send request issued
\*   SendSettles   the awaited request settles -> results applied, finally
\* The routes answer as SendRouteReplies and DraftRouteReply say.

DefaultInstructions ==
    "Generate a polite email introducing our offering. Keep it under 170 words and end with a clear call to action."
DefaultOpenAiModel == "gpt-4o-mini"
DefaultSender == "Growth Team <team@example.com>"
LogLimit == 40

\* what the quick form passes on: a name and an email, both non-empty
FormName == "Ann"
FormEmail == "ann@example.com"

\* a recipient as handleCreateRecipient stores it
NewRecipient(id) ==
    [id |-> id, name |-> FormName, email |-> FormEmail, status |-> "pending",
     lastError |-> Undefined, previewSubject |-> Undefined,
     previewHtml |-> Undefined, previewText |-> Undefined]

\* what a running handler reads of a recipient of the automation it closed
\* over: the id its updates go by and the name and email it sends
Captured(list) ==
    [k \in 1..Len(list) |->
        [id |-> list[k].id, name |-> list[k].name, email |-> list[k].email]]

\* { ...recipient, ...patch }
Merge(r, patch) ==
    [f \in DOMAIN r |-> IF f \in DOMAIN patch THEN patch[f] ELSE r[f]]

\* handleUpdateRecipient: the patch is applied to the recipient with the id
UpdateRecipient(list, id, patch) ==
    [k \in DOMAIN list |-> IF list[k].id = id THEN Merge(list[k], patch) ELSE list[k]]

\* addLog: [entry, ...automation.logs].slice(0, 40)
AddLog(l, entry) == SubSeq(<<entry>> \o l, 1, Min(Len(l) + 1, LogLimit))

\* a property of a parsed JSON object, undefined when it has none
Property(json, f) == IF f \in DOMAIN json THEN Str(json[f]) ELSE Undefined

\* JSON.stringify of the error bodies of the routes (none of the strings drawn
\* in the page specification holds a character that is escaped)
Stringify(json) ==
    IF DOMAIN json = {"error"} THEN "{\"error\":\"" \o json.error \o "\"}"
    ELSE IF DOMAIN json = {"error", "detail"}
    THEN "{\"error\":\"" \o json.error \o "\",\"detail\":\"" \o json.detail \o "\"}"
    ELSE IF DOMAIN json = {"error", "detail", "raw"}
    THEN "{\"error\":\"" \o json.error \o "\",\"detail\":\"" \o json.detail
             \o "\",\"raw\":\"" \o json.raw \o "\"}"
    ELSE "{}"

\* await response.text()
TextOf(r) == IF "text" \in DOMAIN r THEN r.text ELSE Stringify(r.json)

\* the provider behaviours drawn in the page specification
PageProviderOutcomes ==
    {[kind |-> "response", status |-> 200, body |-> [kind |-> "text"]],
     [kind |-> "response", status |-> 429,
      body |-> [kind |-> "object", message |-> Str("rate limited"), error |-> Undefined]]}
PageLlmOutcomes ==
    {[kind |-> "response", status |-> 200,
      body |-> [raw |-> "{\"choices\":[{\"message\":{\"content\":...}}]}",
                valid |-> TRUE, content |-> Str(FullDraftContent)]],
     [kind |-> "response", status |-> 200,
      body |-> [raw |-> "{\"choices\":[{\"message\":{\"content\":...}}]}",
                valid |-> TRUE, content |-> Str("not json")]]}
PageParseDetail == "Unexpected token o in JSON at position 1"

\* the page's fetch rejects when the route cannot be reached
FetchFailure == [kind |-> "reject", value |-> Err("Failed to fetch")]
\* the platform's answer when an exception leaves a route handler
HandlerCrashed == [kind |-> "response", status |-> 500, text |-> "Internal Server Error"]
\* the platform's answer when the handler runs out of time
HandlerTimedOut == [kind |-> "response", status |-> 504, text |-> "Gateway Timeout"]

\* the body of the /api/draft request of draftWithOpenAI
DraftRequestOf(key, recipient) ==
    [openAiKey |-> Some(key),
     openAiModel |-> Some(DefaultOpenAiModel),
     instructions |-> Some(DefaultInstructions),
     recipient |-> Some([name |-> Some(recipient.name),
                         email |-> Some(recipient.email)])]

\* what the awaited fetch('/api/draft') can settle with
DraftResponses(request) ==
    {LET r == DraftRouteReply(request, o, PageParseDetail)
     IN IF r = None THEN HandlerCrashed
        ELSE [kind |-> "response", status |-> r[1].status, json |-> r[1].json] :
        o \in PageLlmOutcomes} \cup {FetchFailure}

\* recipient.status === 'drafted' || recipient.status === 'pending'
Sendable(recipient) == recipient.status \in {"drafted", "pending"}

\* variant: failed recipients are sent again
PayloadRecipientsRetrying(list) ==
    SelectSeq(list, LAMBDA r : r.status \in {"drafted", "pending", "failed"})

\* selectedAutomation.recipients.filter(...)
PayloadRecipients(list) == SelectSeq(list, Sendable)

\* the body of the /api/send request of handleSendEmails
SendRequestOf(key, list) ==
    [resendApiKey |-> Some(key),
     from |-> Some(DefaultSender),
     batchSize |-> Some(DefaultBatchSize),
     cooldownMinutes |-> Some(DefaultCooldownMinutes),
     payloads |-> Some([k \in 1..Len(list) |-> [id |-> list[k].id]])]

\* what the awaited fetch('/api/send') can settle with
SendResponses(request) ==
    {[kind |-> "response", status |-> r.status,
      json |-> IF "results" \in DOMAIN r THEN [results |-> r.results]
               ELSE [error |-> r.error]] :
        r \in SendRouteReplies(request, PageProviderOutcomes)}
    \cup {HandlerTimedOut, FetchFailure}

\* the patches of the two handlers
DraftedPatch(json) ==
    [previewSubject |-> Property(json, "subject"),
     previewHtml |-> Property(json, "html"),
     previewText |-> Property(json, "text"),
     status |-> "drafted",
     lastError |-> Undefined]
FailedPatch(message) == [status |-> "failed", lastError |-> Str(message)]
SentPatch == [status |-> "sent", lastError |-> Undefined]

\* error instanceof Error ? error.message : fallback
MessageOr(e, fallback) == IF e.t = "Error" THEN e.message ELSE fallback

\* entry.error ?? fallback
EntryError(entry, fallback) ==
    IF "error" \in DOMAIN entry THEN entry.error ELSE fallback

\* variant: every entry of the results marks its recipient sent
ApplyEntryAlwaysSent(list, entry) == UpdateRecipient(list, entry.id, SentPatch)

\* the body of result.results.forEach, on the recipients
ApplyEntry(list, entry) ==
    IF entry.ok THEN UpdateRecipient(list, entry.id, SentPatch)
    ELSE UpdateRecipient(list, entry.id, FailedPatch(EntryError(entry, "Unknown error")))

\* the body of result.results.forEach, on the logs
LogEntry(l, entry) ==
    IF entry.ok THEN AddLog(l, [level |-> "info", recipientId |-> entry.id])
    ELSE AddLog(l, [level |-> "error", recipientId |-> entry.id])

\* result.results.forEach over the first n entries
RECURSIVE ApplyResults(_, _, _)
ApplyResults(list, res, n) ==
    IF n = 0 THEN list ELSE ApplyEntry(ApplyResults(list, res, n - 1), res[n])
RECURSIVE LogResults(_, _, _)
LogResults(l, res, n) ==
    IF n = 0 THEN l ELSE LogEntry(LogResults(l, res, n - 1), res[n])

\* the user types the OpenAI key
TypeOpenAiKey ==
    /\ openAiKey = ""
    /\ openAiKey' = "sk_key"
    /\ UNCHANGED <<recipients, automationStatus, logs, resendKey, isDrafting,
                   isSending, sendError, draftRun, sendRun, draftRequests,
                   sendRequests, received, clicksLeft>>
    /\ UNCHANGED <<delivered, created, automationId, csvUpload, uploadError>>
    /\ UNCHANGED outsideUi

\* the user types the Resend key
TypeResendKey ==
    /\ resendKey = ""
    /\ resendKey' = "re_key"
    /\ UNCHANGED <<recipients, automationStatus, logs, openAiKey, isDrafting,
                   isSending, sendError, draftRun, sendRun, draftRequests,
                   sendRequests, received, clicksLeft>>
    /\ UNCHANGED <<delivered, created, automationId, csvUpload, uploadError>>
    /\ UNCHANGED outsideUi

\* handleCreateRecipient: a recipient with a fresh id is put in front
handleCreateRecipient ==
    /\ Len(recipients) < MaxRecipients
    /\ recipients' = <<NewRecipient(IdAt(created + 1))>> \o recipients
    /\ created' = created + 1
    /\ UNCHANGED <<automationStatus, logs, openAiKey, resendKey, isDrafting,
                   isSending, sendError, draftRun, sendRun, draftRequests,
                   sendRequests, received, clicksLeft>>
    /\ UNCHANGED <<delivered, automationId, csvUpload, uploadError>>
    /\ UNCHANGED outsideUi

\* the draft button is enabled
CanDraft == ~isDrafting /\ Len(recipients) # 0

\* the send button is enabled
CanSend == ~isSending /\ Len(SelectSeq(recipients, Sendable)) # 0

\* variant: the request for the following recipient is issued with this one
IssueDraftsPaired(snapshot, pos) ==
    IF pos < Len(snapshot)
    THEN <<[id |-> snapshot[pos].id, outcome |-> "awaited"],
           [id |-> snapshot[pos + 1].id, outcome |-> "awaited"]>>
    ELSE <<[id |-> snapshot[pos].id, outcome |-> "awaited"]>>

\* the fetch of draftWithOpenAI for the recipient at pos of the snapshot
IssueDrafts(snapshot, pos) == <<[id |-> snapshot[pos].id, outcome |-> "awaited"]>>

\* the request in flight has settled, as drafted or as failed
Settle(requests, outcome) ==
    [k \in DOMAIN requests |->
        IF k = Len(requests) THEN [requests[k] EXCEPT !.outcome = outcome]
        ELSE requests[k]]

\* handleDraftEmails from its entry to the first awaited draftWithOpenAI
DraftClick ==
    /\ CanDraft
    /\ IF openAiKey = ""
       THEN /\ sendError' = Some("Add an OpenAI API key before drafting")
            /\ UNCHANGED <<automationStatus, isDrafting, draftRun, draftRequests, clicksLeft>>
       ELSE /\ clicksLeft > 0
            /\ clicksLeft' = clicksLeft - 1
            /\ sendError' = None
            /\ isDrafting' = TRUE
            /\ automationStatus' = "drafting"
            /\ draftRun' = Some([automation |-> automationId,
                                   snapshot |-> Captured(recipients), pos |-> 1])
            /\ draftRequests' = IssueDrafts(recipients, 1)
    /\ UNCHANGED <<recipients, logs, openAiKey, resendKey, isSending, sendRun,
                   sendRequests, received>>
    /\ UNCHANGED <<delivered, created, automationId, csvUpload, uploadError>>
    /\ UNCHANGED outsideUi

\* the run's updates go by the id of the automation that was selected when
\* the handler was called; they reach the selected automation if it is that one
Selected(run) == run.automation = automationId

\* the recipient whose draft is awaited
Drafting == draftRun[1].snapshot[draftRun[1].pos]

\* the awaited draftWithOpenAI settles for the recipient at pos: the try or
\* the catch block, then the next iteration or the end of the handler
DraftSettlesWith(r) ==
    /\ draftRun # None
    /\ LET run == draftRun[1]
           recipient == Drafting
       IN /\ r \in DraftResponses(DraftRequestOf(openAiKey, recipient))
          /\ IF r.kind = "response" /\ ResponseOk(r.status)
             THEN /\ recipients' =
                        IF Selected(run)
                        THEN UpdateRecipient(recipients, recipient.id, DraftedPatch(r.json))
                        ELSE recipients
                  /\ logs' =
                        IF Selected(run)
                        THEN AddLog(logs, [level |-> "info", recipientId |-> recipient.id])
                        ELSE logs
             ELSE LET error == IF r.kind = "reject" THEN r.value ELSE Err(TextOf(r))
                  IN /\ recipients' =
                           IF Selected(run)
                           THEN UpdateRecipient(recipients, recipient.id,
                                                FailedPatch(MessageOr(error, "Draft failed")))
                           ELSE recipients
                     /\ logs' =
                           IF Selected(run)
                           THEN AddLog(logs, [level |-> "error",
                                              recipientId |-> recipient.id])
                           ELSE logs
          /\ LET outcome == IF r.kind = "response" /\ ResponseOk(r.status)
                             THEN "drafted" ELSE "failed"
             IN IF run.pos < Len(run.snapshot)
                THEN /\ draftRun' = Some([run EXCEPT !.pos = run.pos + 1])
                     /\ draftRequests' = Settle(draftRequests, outcome)
                                            \o IssueDrafts(run.snapshot, run.pos + 1)
                     /\ UNCHANGED <<automationStatus, isDrafting>>
                ELSE /\ draftRun' = None
                     /\ draftRequests' = Settle(draftRequests, outcome)
                     /\ automationStatus' =
                           IF Selected(run) THEN "idle" ELSE automationStatus
                     /\ isDrafting' = FALSE
    /\ UNCHANGED <<openAiKey, resendKey, isSending, sendError, sendRun,
                   sendRequests, received, clicksLeft>>
    /\ UNCHANGED <<delivered, created, automationId, csvUpload, uploadError>>
    /\ UNCHANGED outsideUi

\* handleSendEmails from its entry to the awaited fetch
SendClick ==
    /\ CanSend
    /\ LET payloadRecipients == PayloadRecipients(recipients)
       IN IF resendKey = ""
          THEN /\ sendError' = Some("Add a Resend API key before sending")
               /\ UNCHANGED <<automationStatus, isSending, sendRun, sendRequests, clicksLeft>>
          ELSE IF Len(payloadRecipients) = 0
          THEN /\ sendError' = Some("No drafted recipients to send")
               /\ UNCHANGED <<automationStatus, isSending, sendRun, sendRequests, clicksLeft>>
          ELSE /\ clicksLeft > 0
               /\ clicksLeft' = clicksLeft - 1
               /\ sendError' = None
               /\ isSending' = TRUE
               /\ automationStatus' = "sending"
               /\ sendRun' = Some([automation |-> automationId,
                                   payloadRecipients |-> Captured(payloadRecipients),
                                   request |-> SendRequestOf(resendKey, payloadRecipients)])
               /\ sendRequests' = <<SendRequestOf(resendKey, payloadRecipients)>>
    /\ UNCHANGED <<recipients, logs, openAiKey, resendKey, isDrafting, draftRun,
                   draftRequests, received>>
    /\ UNCHANGED <<delivered, created, automationId, csvUpload, uploadError>>
    /\ UNCHANGED outsideUi

\* the ids the results report ok are counted once more
Deliver(d, res) ==
    LET ok == {res[k].id : k \in {j \in DOMAIN res : res[j].ok}}
    IN [id \in DOMAIN d \cup ok |->
           (IF id \in DOMAIN d THEN d[id] ELSE 0) + (IF id \in ok THEN 1 ELSE 0)]

\* the awaited fetch settles: the results are applied, or the catch block
\* reports the error; then the finally block
SendSettlesWithoutFinally(r) ==
    /\ sendRun # None
    /\ r \in SendResponses(sendRun[1].request)
    /\ IF r.kind = "response" /\ ResponseOk(r.status)
       THEN /\ recipients' =
                  IF Selected(sendRun[1])
                  THEN ApplyResults(recipients, r.json.results, Len(r.json.results))
                  ELSE recipients
            /\ logs' =
                  IF Selected(sendRun[1])
                  THEN LogResults(logs, r.json.results, Len(r.json.results))
                  ELSE logs
            /\ received' = <<r.json.results>>
            /\ delivered' = Deliver(delivered, r.json.results)
            /\ sendError' = sendError
            /\ isSending' = FALSE
            /\ automationStatus' =
                  IF Selected(sendRun[1]) THEN "idle" ELSE automationStatus
       ELSE LET error == IF r.kind = "reject" THEN r.value ELSE Err(TextOf(r))
            IN /\ sendError' = Some(MessageOr(error, "Failed to send emails"))
               /\ received' = <<>>
               /\ UNCHANGED <<recipients, logs, delivered, isSending, automationStatus>>
    /\ sendRun' = None
    /\ UNCHANGED <<openAiKey, resendKey, isDrafting, draftRun, draftRequests,
                   sendRequests, clicksLeft>>
    /\ UNCHANGED <<created, automationId, csvUpload, uploadError>>
    /\ UNCHANGED outsideUi

SendSettlesWith(r) ==
    /\ sendRun # None
    /\ r \in SendResponses(sendRun[1].request)
    /\ IF r.kind = "response" /\ ResponseOk(r.status)
       THEN /\ recipients' =
                  IF Selected(sendRun[1])
                  THEN ApplyResults(recipients, r.json.results, Len(r.json.results))
                  ELSE recipients
            /\ logs' =
                  IF Selected(sendRun[1])
                  THEN LogResults(logs, r.json.results, Len(r.json.results))
                  ELSE logs
            /\ received' = <<r.json.results>>
            /\ delivered' = Deliver(delivered, r.json.results)
            /\ sendError' = sendError
       ELSE LET error == IF r.kind = "reject" THEN r.value ELSE Err(TextOf(r))
            IN /\ sendError' = Some(MessageOr(error, "Failed to send emails"))
               /\ received' = <<>>
               /\ UNCHANGED <<recipients, logs, delivered>>
    /\ isSending' = FALSE
    /\ automationStatus' = IF Selected(sendRun[1]) THEN "idle" ELSE automationStatus
    /\ sendRun' = None
    /\ UNCHANGED <<openAiKey, resendKey, isDrafting, draftRun, draftRequests,
                   sendRequests, clicksLeft>>
    /\ UNCHANGED <<created, automationId, csvUpload, uploadError>>
    /\ UNCHANGED outsideUi

\* no request has reached the send route
SendIdle ==
    /\ body = [resendApiKey |-> None, from |-> None, batchSize |-> None,
               cooldownMinutes |-> None, payloads |-> None]
    /\ pc = "idle"
    /\ index = 0
    /\ results = <<>>
    /\ response = None
    /\ reply = None
    /\ fetches = <<>>
    /\ answers = <<>>
    /\ sleeps = <<>>
    /\ thrown = <<>>

InitPage == PageIdle /\ SendIdle /\ DraftIdle

\* the awaited draftWithOpenAI settles in one of the ways it can
DraftSettles ==
    /\ draftRun # None
    /\ \E r \in DraftResponses(DraftRequestOf(openAiKey, Drafting)) : DraftSettlesWith(r)

\* the awaited fetch('/api/send') settles in one of the ways it can
SendSettles ==
    /\ sendRun # None
    /\ \E r \in SendResponses(sendRun[1].request) : SendSettlesWith(r)

NextPage ==
    \/ TypeOpenAiKey
    \/ TypeResendKey
    \/ handleCreateRecipient
    \/ DraftClick
    \/ DraftSettles
    \/ SendClick
    \/ SendSettles

SpecPage == InitPage /\ [][NextPage]_vars

\* the page with one run more to come than in SpecPage: a send run, a draft
\* run and a second send run fit
InitResend == PageWithLog(<<>>, MaxClicks + 1) /\ SendIdle /\ DraftIdle

SpecResend == InitResend /\ [][NextPage]_vars

(* ---------------------- CSV import and duplication --------------------- *)

\* what Papa.parse made of the chosen file: rows keyed by the header, or
\* errors. One file has a row with full_name and address for name and email
\* and a row without any e-mail column, one has only a row without e-mail,
\* one does not parse.
CsvRow(name, full_name, email, address) ==
    [name |-> name, full_name |-> full_name, email |-> email, address |-> address]

CsvFiles ==
    { [errors |-> <<>>,
       data |-> <<CsvRow(Undefined, Str("Bob"), Undefined, Str("bob@example.com")),
                  CsvRow(Str("Cy"), Undefined, Undefined, Undefined)>>],
      [errors |-> <<>>,
       data |-> <<CsvRow(Str("Cy"), Undefined, Undefined, Undefined)>>],
      [errors |-> <<"Too few fields">>, data |-> <<>>] }

\* the rows mapped to recipients and filtered by name && email; the k-th row
\* kept gets the k-th fresh id after the first n. The mapped object has no
\* lastError and no preview.
RECURSIVE ImportedRecipients(_, _)
ImportedRecipients(data, n) ==
    IF data = <<>> THEN <<>>
    ELSE LET row == Head(data)
             name == NullishOr(row.name, NullishOr(row.full_name, Str("")))
             email == NullishOr(row.email, NullishOr(row.address, Str("")))
         IN IF ~JsFalsy(name) /\ ~JsFalsy(email)
            THEN <<[id |-> IdAt(n + 1), name |-> name.s, email |-> email.s,
                    status |-> "pending", lastError |-> Undefined,
                    previewSubject |-> Undefined, previewHtml |-> Undefined,
                    previewText |-> Undefined]>>
                 \o ImportedRecipients(Tail(data), n + 1)
            ELSE ImportedRecipients(Tail(data), n)

\* the log entry of an import: level info and no recipientId, written "" here
\* (nanoid never returns the empty string)
ImportEntry == [level |-> "info", recipientId |-> ""]

\* the imports that came before the initial state of SpecImports
ImportsBefore == LogLimit - 1

\* handleCsvUpload up to the await of the parse; the file input is disabled
\* while isUploadingCSV, which is csvUpload # None here
ChooseCsv ==
    /\ csvUpload = None
    /\ clicksLeft > 0
    /\ \E file \in CsvFiles :
           csvUpload' = Some([automation |-> automationId, file |-> file])
    /\ uploadError' = None
    /\ clicksLeft' = clicksLeft - 1
    /\ UNCHANGED <<recipients, automationStatus, logs, openAiKey, resendKey,
                   isDrafting, isSending, sendError, draftRun, sendRun,
                   draftRequests, sendRequests, received, delivered,
                   created, automationId>>
    /\ UNCHANGED outsideUi

\* the parse has completed: the rows are imported and the import is logged,
\* or the errors are reported
CsvParsed ==
    /\ csvUpload # None
    /\ LET upload == csvUpload[1]
           imported == ImportedRecipients(upload.file.data, created)
       IN IF upload.file.errors = <<>>
          THEN /\ Len(imported) + Len(recipients) <= MaxRecipients
               /\ recipients' =
                     IF Selected(upload) THEN imported \o recipients ELSE recipients
               /\ logs' = IF Selected(upload) THEN <<ImportEntry>> \o logs ELSE logs
               /\ created' = created + Len(imported)
               /\ uploadError' = uploadError
          ELSE /\ uploadError' = Some(upload.file.errors[1])
               /\ UNCHANGED <<recipients, logs, created>>
    /\ csvUpload' = None
    /\ UNCHANGED <<automationStatus, openAiKey, resendKey, isDrafting, isSending,
                   sendError, draftRun, sendRun, draftRequests, sendRequests,
                   received, clicksLeft, delivered, automationId>>
    /\ UNCHANGED outsideUi

\* the copy of a recipient: a fresh id, pending, lastError cleared, the
\* previews kept
DuplicateKeepingError(recipient, id) ==
    [recipient EXCEPT !.id = id, !.status = "pending"]

Duplicate(recipient, id) ==
    [recipient EXCEPT !.id = id, !.status = "pending", !.lastError = Undefined]

\* the copy is put in front of the automations and selected; the automation
\* left behind keeps its own recipients and log, and the runs and imports in
\* flight go on updating it by its id
handleDuplicateAutomation ==
    /\ clicksLeft > 0
    /\ clicksLeft' = clicksLeft - 1
    /\ automationId' = automationId + 1
    /\ recipients' = [k \in DOMAIN recipients |->
                         Duplicate(recipients[k], IdAt(created + k))]
    /\ created' = created + Len(recipients)
    /\ automationStatus' = "idle"
    /\ logs' = <<>>
    /\ UNCHANGED <<openAiKey, resendKey, isDrafting, isSending, sendError,
                   draftRun, sendRun, draftRequests, sendRequests, received,
                   delivered, csvUpload, uploadError>>
    /\ UNCHANGED outsideUi

\* the page after ImportsBefore imports of a file without a usable row: each
\* left one entry in the log and nothing else
InitImports ==
    /\ PageWithLog([k \in 1..ImportsBefore |-> ImportEntry], MaxClicks)
    /\ SendIdle
    /\ DraftIdle

NextImports ==
    \/ NextPage
    \/ ChooseCsv
    \/ CsvParsed
    \/ handleDuplicateAutomation

SpecImports == InitImports /\ [][NextImports]_vars

\* the fetch to /api/send is a promise that settles (the route answers, the
\* platform cuts the handler off, or the fetch rejects), and the continuation
\* of handleSendEmails then runs
SpecPageLive == SpecPage /\ WF_vars(SendSettles)

(* ------------------------------ properties ---------------------------- *)

\* the request passed the three validation checks
Validated ==
    /\ body.resendApiKey \notin {None, Some("")}
    /\ body.from \notin {None, Some("")}
    /\ body.payloads # None
    /\ Len(body.payloads[1]) > 0

\* the handler has returned its results list
Returned == pc = "done" /\ Validated

NumMsgs == Len(payloads)

\* C1: for every non-empty message list that passes validation the handler
\* returns status 200 with a results list that has one entry per input message,
\* the i-th result carrying the i-th message's id, whatever the provider did.
C1_ResultsMatchMessages ==
    Returned =>
        /\ reply # None
        /\ reply[1].status = 200
        /\ Len(reply[1].results) = NumMsgs
        /\ \A i \in 1..NumMsgs : reply[1].results[i].id = body.payloads[1][i].id

\* a finished run of three messages: one accepted, one refused with an error
\* status, one whose fetch threw
C1_Witness ==
    /\ Returned
    /\ NumMsgs >= 3
    /\ \E i, j, k \in 1..NumMsgs :
        /\ answers[i] = Some(200)
        /\ answers[j] = Some(429)
        /\ answers[k] = None

\* C2: a 429 answer with body {"message":"rate limited"} is recorded as
\* {ok:false, error:"rate limited"} for that message, appended to the results
\* already there, and the loop goes on: the handler does not return while a
\* later message is left, and a finished run that holds such a result has
\* called the provider for every message.
C2_RateLimitedStep ==
    (/\ pc = "json"
     /\ response = Some([status |-> 429,
                         body |-> [kind |-> "object",
                                   message |-> Str("rate limited"),
                                   error |-> Undefined]]))
    => /\ results' = Append(results, [id |-> body.payloads[1][index + 1].id,
                                      ok |-> FALSE,
                                      error |-> "rate limited"])
       /\ (index + 1 < NumMsgs => pc' \in {"fetch", "sleep"})

C2_AllAttempted ==
    (Returned /\ \E i \in 1..Len(results) :
                    ~results[i].ok /\ results[i].error = "rate limited")
    => /\ Len(fetches) = NumMsgs
       /\ Len(results) = NumMsgs

C2_RateLimitedDoesNotAbort == [][C2_RateLimitedStep]_vars /\ []C2_AllAttempted

\* a finished run whose first message was rate limited and whose later
\* messages were still sent, the last one accepted
C2_Witness ==
    /\ Returned
    /\ NumMsgs >= 3
    /\ answers[1] = Some(429)
    /\ results[1] = [id |-> body.payloads[1][1].id, ok |-> FALSE,
                     error |-> "rate limited"]
    /\ Len(fetches) = NumMsgs
    /\ results[NumMsgs].ok

\* C3: the provider is called exactly once per message, in message order: at
\* every moment the calls issued are the calls for a prefix of the list, one
\* each, and a finished run over n messages has made exactly n calls, however
\* the calls ended.
C3_OneCallPerMessage ==
    /\ Len(fetches) <= NumMsgs
    /\ \A k \in 1..Len(fetches) : fetches[k] = body.payloads[1][k].id
    /\ Returned => Len(fetches) = NumMsgs
    /\ ~Validated => fetches = <<>>

\* a finished run in which every call failed (error status or exception) and
\* still only one call per message was made
C3_Witness ==
    /\ Returned
    /\ NumMsgs >= 3
    /\ Len(fetches) = NumMsgs
    /\ \A k \in 1..NumMsgs : ~results[k].ok
    /\ \E j, k \in 1..NumMsgs : answers[j] = None /\ answers[k] = Some(429)

\* the indices after which the handler has slept
Slept == {sleeps[k].after : k \in DOMAIN sleeps}

\* ceil(n / b) for positive b
Ceil(n, b) == (n + b - 1) \div b

\* C4: with a positive cooldown and batchSize >= 1 the handler has slept after
\* index i exactly when (i+1) % batchSize = 0, i is not the last index and
\* the run has gone past i; no index is slept after twice; a finished run has
\* slept ceil(n/batchSize) - 1 times; and while it sleeps after i the result
\* of message i is recorded and the call for message i+1 has not begun.
C4_SleepsAtBatchBoundaries ==
    (Validated /\ batchSize >= 1 /\ Coalesce(body.cooldownMinutes, 5) > 0) =>
        /\ \A i \in 0..(NumMsgs - 1) :
            i \in Slept <=>
                /\ (i + 1) % batchSize = 0
                /\ i # NumMsgs - 1
                /\ Len(fetches) > i + 1 \/ (pc = "sleep" /\ index = i)
        /\ Len(sleeps) = Cardinality(Slept)
        /\ \A k \in 1..(Len(sleeps) - 1) : sleeps[k].after < sleeps[k + 1].after
        /\ Returned => Len(sleeps) = Ceil(NumMsgs, batchSize) - 1
        /\ pc = "sleep" =>
            /\ Len(results) = index + 1
            /\ Len(fetches) = index + 1
            /\ Len(answers) = index + 1

\* a finished run of three messages in batches of two: one sleep, after index 1
C4_Witness ==
    /\ Returned
    /\ NumMsgs = 3
    /\ body.batchSize = Some(2)
    /\ cooldownMs > 0
    /\ Slept = {1}

\* C5: when batchSize is at least the number of messages the handler never
\* sleeps, whatever the cooldown.
C5_NoSleepWhenBatchCoversList ==
    (Validated /\ batchSize >= NumMsgs) => (sleeps = <<>> /\ pc # "sleep")

\* a finished run of two messages with batchSize 2 and a positive cooldown
C5_Witness ==
    /\ Returned
    /\ NumMsgs = 2
    /\ body.batchSize = Some(2)
    /\ cooldownMs > 0
    /\ sleeps = <<>>

\* C6: when the cooldown is 0, or negative and so clamped to 0, the handler
\* never sleeps, for any batch size and list length.
C6_NoSleepWhenCooldownZero ==
    (body.cooldownMinutes # None /\ body.cooldownMinutes[1] <= 0) =>
        (sleeps = <<>> /\ pc # "sleep")

\* a finished run of three messages in batches of one with a cooldown of -5
C6_Witness ==
    /\ Returned
    /\ NumMsgs >= 3
    /\ body.batchSize = Some(1)
    /\ body.cooldownMinutes = Some(-5)
    /\ sleeps = <<>>

\* the clamp written out case by case
ClampedMs(minutes) ==
    IF minutes * 1000 < 0 THEN 0
    ELSE IF minutes * 1000 > 15000 THEN 15000
    ELSE minutes * 1000

\* C7: the cooldown in milliseconds is cooldownMinutes * 1000 clamped to
\* [0, 15000], cooldownMinutes being 5 when absent: 0 gives 0, 100 gives
\* 15000, -5 gives 0, and every sleep taken lasts exactly that long, never a
\* negative time and never more than 15000 ms.
C7_CooldownClamped ==
    /\ cooldownMs = ClampedMs(IF body.cooldownMinutes = None THEN 5
                              ELSE body.cooldownMinutes[1])
    /\ cooldownMs >= 0
    /\ cooldownMs <= 15000
    /\ body.cooldownMinutes = Some(0) => cooldownMs = 0
    /\ body.cooldownMinutes = Some(100) => cooldownMs = 15000
    /\ body.cooldownMinutes = Some(-5) => cooldownMs = 0
    /\ body.cooldownMinutes = None => cooldownMs = 5000
    /\ \A k \in DOMAIN sleeps :
        /\ sleeps[k].ms = cooldownMs
        /\ sleeps[k].ms > 0
        /\ sleeps[k].ms <= 15000

\* a run with cooldownMinutes 100 that has slept 15000 ms
C7_Witness ==
    /\ body.cooldownMinutes = Some(100)
    /\ sleeps # <<>>
    /\ sleeps[1].ms = 15000

\* C8: provider calls are sequential in index order: at most one call is in
\* flight, the k-th call is the one for the k-th message, and a call is only
\* issued when every earlier call has ended and its result is recorded.
C8_InFlight == Len(fetches) - Len(answers)

C8_Sequential ==
    /\ C8_InFlight \in {0, 1}
    /\ C8_InFlight = 1 <=> pc = "fetch"
    /\ \A k \in 1..Len(fetches) : fetches[k] = body.payloads[1][k].id
    /\ Len(fetches) <= Len(results) + 1
    /\ pc = "fetch" => Len(results) = Len(fetches) - 1 /\ index = Len(results)

\* the third call of a run is in flight, the first two results recorded
C8_Witness ==
    /\ pc = "fetch"
    /\ Len(fetches) = 3
    /\ Len(results) = 2
    /\ Len(answers) = 2

\* C9: a result has ok = true exactly when the provider answered that
\* message's call with a 2xx status, and has an error field exactly when ok is
\* false.
C9_OkIffSuccessStatus ==
    /\ Len(results) <= Len(answers)
    /\ \A k \in 1..Len(results) :
        /\ results[k].ok <=>
            (answers[k] # None /\ answers[k][1] >= 200 /\ answers[k][1] <= 299)
        /\ ("error" \in DOMAIN results[k]) <=> ~results[k].ok

\* results for a 200, a 201, a 429 and a thrown call in one run
C9_Witness ==
    /\ \E i, j \in 1..Len(results) :
        /\ answers[i] = Some(201) /\ results[i] = [id |-> results[i].id, ok |-> TRUE]
        /\ answers[j] = Some(429) /\ ~results[j].ok /\ "error" \in DOMAIN results[j]

\* field f of the response body is present: the body is a JSON object and f is
\* neither missing nor null
C10_Has(b, f) == b.kind = "object" /\ b[f] # Undefined /\ b[f] # Null

\* C10: for a non-success status the recorded error is the body's message if
\* present, otherwise its error if present, otherwise "Resend API error
\* (<status>)"; a body that is not JSON gives the generic string and the loop
\* goes on as for any other failure.
C10_Step ==
    pc = "json" =>
        LET b == response[1].body
            expected ==
                IF C10_Has(b, "message") THEN b.message.s
                ELSE IF C10_Has(b, "error") THEN b.error.s
                ELSE "Resend API error (" \o ToString(response[1].status) \o ")"
        IN /\ results' = Append(results, [id |-> body.payloads[1][index + 1].id,
                                          ok |-> FALSE, error |-> expected])
           /\ pc' \in {"fetch", "sleep", "done"}

C10_ErrorPrecedence == [][C10_Step]_vars

\* one run has recorded a message, an error field and the generic string
C10_Witness ==
    \E i, j, k \in 1..Len(results) :
        /\ answers[i] = Some(429) /\ results[i].error = "rate limited"
        /\ answers[j] = Some(429) /\ results[j].error = "too many"
        /\ answers[k] = Some(429) /\ results[k].error = "Resend API error (429)"

\* C11: when the fetch for a message throws, that message's result is
\* {ok:false, error: the Error's message, or "Unexpected error" when the thrown
\* value is not an Error}, and the handler goes on to the next message: its
\* call is issued, or the batch cooldown before it is running.
C11_ThrownRecordedAndContinues ==
    \A t \in DOMAIN thrown :
        LET c == thrown[t].call
            v == thrown[t].value
        IN /\ c <= Len(results)
           /\ answers[c] = None
           /\ results[c] = [id |-> body.payloads[1][c].id,
                            ok |-> FALSE,
                            error |-> IF v.t = "Error" THEN v.message
                                      ELSE "Unexpected error"]
           /\ c < NumMsgs => (Len(fetches) > c \/ (pc = "sleep" /\ index = c - 1))

\* the first fetch threw an Error, the second a value that is no Error, and
\* the third message was still sent
C11_Witness ==
    /\ Returned
    /\ NumMsgs >= 3
    /\ Len(thrown) >= 2
    /\ thrown[1] = [call |-> 1, value |-> Err("fetch failed")]
    /\ thrown[2] = [call |-> 2, value |-> Str("boom")]
    /\ results[1].error = "fetch failed"
    /\ results[2].error = "Unexpected error"
    /\ answers[3] = Some(200)

\* the key, the sender or the list of a request is missing or empty
C12_KeyMissing == body.resendApiKey = None \/ body.resendApiKey = Some("")
C12_FromMissing == body.from = None \/ body.from = Some("")
C12_ListMissing == body.payloads = None \/ body.payloads = Some(<<>>)

\* C12: a request without API key, without sender address or without messages
\* makes no provider call and is answered by a single error with status 400
\* and no results list; the error is the one of the first failing check in
\* the order key, sender, list.
C12_ValidationShortCircuits ==
    (C12_KeyMissing \/ C12_FromMissing \/ C12_ListMissing) =>
        /\ fetches = <<>>
        /\ results = <<>>
        /\ pc \in {"start", "done"}
        /\ pc = "done" =>
            /\ reply # None
            /\ DOMAIN reply[1] = {"status", "error"}
            /\ reply[1].status = 400
            /\ reply[1].error =
                IF C12_KeyMissing THEN "Missing Resend API key"
                ELSE IF C12_FromMissing THEN "Missing \"from\" address"
                ELSE "No recipients to send"

\* a request that lacks key, sender and list has been answered with the
\* missing-key error
C12_Witness ==
    /\ pc = "done"
    /\ body.resendApiKey = None
    /\ body.from = None
    /\ body.payloads = None
    /\ reply = Some([status |-> 400, error |-> "Missing Resend API key"])

\* C13: in both routes a request without an API key (absent or empty) is
\* answered with a structured error of status 400 and no call to the delivery
\* provider, respectively the LLM provider, is ever made for it.
C13_MissingKeyShortCircuits ==
    /\ (body.resendApiKey = None \/ body.resendApiKey = Some("")) =>
        /\ fetches = <<>>
        /\ pc \in {"start", "done"}
        /\ pc = "done" =>
            /\ reply # None
            /\ reply[1].status = 400
            /\ "error" \in DOMAIN reply[1]
    /\ (draftBody.openAiKey = None \/ draftBody.openAiKey = Some("")) =>
        /\ llmCalls = <<>>
        /\ draftPc \in {"start", "done"}
        /\ draftPc = "done" =>
            /\ draftReply # None
            /\ draftReply[1].status = 400
            /\ "error" \in DOMAIN draftReply[1].json

\* both routes have answered a request without key, the draft request having
\* a complete recipient and the send request a sender and two messages
C13_Witness ==
    /\ pc = "done"
    /\ body.resendApiKey = None
    /\ body.from # None
    /\ Len(payloads) = 2
    /\ reply = Some([status |-> 400, error |-> "Missing Resend API key"])
    /\ draftPc = "done"
    /\ draftBody.openAiKey = Some("")
    /\ draftBody.recipient = Some([name |-> Some("Ann"),
                                   email |-> Some("ann@example.com")])
    /\ draftReply = Some([status |-> 400,
                          json |-> [error |-> "Missing OpenAI API key"]])

\* C15: every failure is returned to the caller as a structured error: no
\* exception leaves the send route or the draft route, and a handler that has
\* ended has replied.
C15_NoExceptionEscapes ==
    /\ pc # "threw"
    /\ pc = "done" => reply # None
    /\ draftPc # "threw"
    /\ draftPc = "done" => draftReply # None

\* the LLM answered with a success status, a JSON body and the given content
C19_LlmContentIs(c) ==
    /\ llmAnswer # None
    /\ llmAnswer[1].status >= 200
    /\ llmAnswer[1].status <= 299
    /\ llmAnswer[1].body.valid
    /\ llmAnswer[1].body.content = Str(c)

\* C19: when the LLM answers with success and a content string that parses
\* as JSON, the draft route replies with status 200 and exactly the parsed
\* value: the content {"subject":"Hi","html":"<p>x</p>","text":"x"} gives
\* {subject:"Hi", html:"<p>x</p>", text:"x"}, with or without white space, and
\* a content that holds only a subject gives only that subject.
C19_ParsedDraftReturned ==
    draftPc = "done" =>
        /\ C19_LlmContentIs("{\"subject\":\"Hi\",\"html\":\"<p>x</p>\",\"text\":\"x\"}")
            => draftReply = Some([status |-> 200,
                                  json |-> [subject |-> "Hi", html |-> "<p>x</p>",
                                            text |-> "x"]])
        /\ C19_LlmContentIs(SpacedDraftContent)
            => draftReply = Some([status |-> 200,
                                  json |-> [subject |-> "Hi", html |-> "<p>x</p>",
                                            text |-> "x"]])
        /\ C19_LlmContentIs("{\"subject\":\"Hi\"}")
            => draftReply = Some([status |-> 200, json |-> [subject |-> "Hi"]])

\* the reply to a request whose LLM content was the three-field draft
C19_Witness ==
    /\ draftPc = "done"
    /\ C19_LlmContentIs("{\"subject\":\"Hi\",\"html\":\"<p>x</p>\",\"text\":\"x\"}")
    /\ draftReply[1].status = 200
    /\ draftReply[1].json.subject = "Hi"

\* C20: when the LLM answers with success and a content string that does not
\* parse as JSON, the draft route replies with status 422, the error "Could
\* not parse model output" and the content unchanged as raw; the reply to an
\* upstream failure carries a different error.
C20_UnparseableContentReported ==
    draftPc = "done" =>
        /\ C19_LlmContentIs("not json") =>
            /\ draftReply # None
            /\ draftReply[1].status = 422
            /\ DOMAIN draftReply[1].json = {"error", "detail", "raw"}
            /\ draftReply[1].json.error = "Could not parse model output"
            /\ draftReply[1].json.raw = "not json"
        /\ (llmAnswer # None /\ llmAnswer[1].status \notin 200..299) =>
            /\ draftReply # None
            /\ draftReply[1].json.error # "Could not parse model output"

\* the reply to a request whose LLM content was "not json"
C20_Witness ==
    /\ draftPc = "done"
    /\ C19_LlmContentIs("not json")
    /\ draftReply[1].status = 422
    /\ draftReply[1].json.raw = "not json"

\* C14: provided every provider call returns or throws, a run over any
\* message list ends: the handler returns, with one result per message when
\* the request was valid, and once it has returned nothing changes its reply.
C14_Terminates ==
    <>[](/\ pc = "done"
         /\ reply # None
         /\ Validated => (reply[1].status = 200 /\ Len(reply[1].results) = NumMsgs))

\* a run of three messages in batches of one has returned after two sleeps, a
\* thrown call and a refused one
C14_Witness ==
    /\ Returned
    /\ NumMsgs >= 3
    /\ Len(sleeps) >= 2
    /\ Len(reply[1].results) = NumMsgs
    /\ \E j, k \in 1..NumMsgs : answers[j] = None /\ answers[k] = Some(429)

(* ------------------------ properties of the page ---------------------- *)

Ids(list) == {list[k].id : k \in DOMAIN list}
ById(list, id) == list[CHOOSE k \in DOMAIN list : list[k].id = id]
StatusOf(list, id) == ById(list, id).status

\* this step is the settling of the draft request for the recipient id
DraftSettledFor(id) ==
    /\ draftRun # None
    /\ draftRequests' # draftRequests
    /\ Drafting.id = id

\* the outcome this step recorded for the draft request that was in flight
DraftOutcome == draftRequests'[Len(draftRequests)].outcome

\* this step is the end of a send run whose results hold an entry for id
SendReportedFor(id) ==
    /\ sendRun # None
    /\ sendRun' = None
    /\ received' # <<>>
    /\ id \in Ids(received'[1])

\* the ids of the payloads of the /api/send request last issued
Dispatched == Ids(sendRequests[1].payloads[1])

\* the statement of C16 as written: only a pending recipient is moved by a
\* draft run, and only a pending or drafted one by a send run
C16_OnlyListedTransitions ==
    [][\A id \in Ids(recipients) :
          LET old == StatusOf(recipients, id)
              new == StatusOf(recipients', id)
          IN old # new =>
                \/ /\ DraftSettledFor(id)
                   /\ old = "pending"
                   /\ new = DraftOutcome
                \/ /\ SendReportedFor(id)
                   /\ old \in {"pending", "drafted"}
                   /\ new = IF ById(received'[1], id).ok THEN "sent" ELSE "failed"]_vars

\* C16 (amended): a recipient's status changes only when a draft request for
\* it settles or when the results of a send run hold an entry for it; the
\* settled draft leaves it drafted on success and failed on failure, whatever
\* its status was, and the entry leaves it sent when ok and failed when not
\* ok, whatever its status was; so a recipient becomes sent only on an entry
\* with ok = true for its id.
C16_StatusChangesByRuns ==
    [][\A id \in Ids(recipients) :
          LET old == StatusOf(recipients, id)
              new == StatusOf(recipients', id)
          IN /\ DraftSettledFor(id) => new = DraftOutcome
             /\ SendReportedFor(id) =>
                    new = IF ById(received'[1], id).ok THEN "sent" ELSE "failed"
             /\ old # new => DraftSettledFor(id) \/ SendReportedFor(id)
             /\ (new = "sent" /\ old # "sent") =>
                    SendReportedFor(id) /\ ById(received'[1], id).ok]_vars

\* a recipient the last send run reported ok has since been drafted again
C16_Witness ==
    /\ received # <<>>
    /\ \E id \in Ids(received[1]) :
          /\ ById(received[1], id).ok
          /\ StatusOf(recipients, id) = "drafted"

\* this step starts a send run
SendStarts == sendRun = None /\ sendRun' # None

\* the parts of C17 that do not depend on what else is running: the request
\* carries exactly the recipients that are pending or drafted at the click,
\* each once and in list order, and no request is issued when there is none
C17_PayloadIsSendable ==
    SendStarts =>
        /\ sendRequests'[1].payloads[1] =
              [k \in 1..Len(SelectSeq(recipients, Sendable)) |->
                  [id |-> SelectSeq(recipients, Sendable)[k].id]]
        /\ \A id \in Ids(recipients) :
              id \in Ids(sendRequests'[1].payloads[1])
                  <=> StatusOf(recipients, id) \in {"pending", "drafted"}
        /\ Len(sendRequests'[1].payloads[1]) > 0

DraftRunInOrder ==
    draftRun # None =>
        /\ Len(draftRequests) = draftRun[1].pos
        /\ \A k \in 1..Len(draftRequests) :
              /\ draftRequests[k].id = draftRun[1].snapshot[k].id
              /\ (draftRequests[k].outcome = "awaited") <=> (k = Len(draftRequests))

\* C18: while a draft run is going, its requests are those for a prefix of
\* the recipients it started with, in list order, and only the last of them
\* is in flight; a request that settles changes no other recipient, and the
\* run goes on to the next recipient whether it succeeded or failed, so that
\* at the end each recipient has been requested exactly once.
C18_DraftsOneAtATime ==
    /\ []DraftRunInOrder
    /\ [][(draftRun # None /\ draftRequests' # draftRequests) =>
             /\ \A id \in Ids(recipients) :
                   id # Drafting.id => ById(recipients', id) = ById(recipients, id)
             /\ StatusOf(recipients', Drafting.id) = DraftOutcome
             /\ IF draftRun[1].pos < Len(draftRun[1].snapshot)
                THEN /\ draftRun' # None
                     /\ draftRun'[1].pos = draftRun[1].pos + 1
                ELSE /\ draftRun' = None
                     /\ [k \in 1..Len(draftRequests') |-> draftRequests'[k].id] =
                           [k \in 1..Len(draftRun[1].snapshot) |->
                               draftRun[1].snapshot[k].id]
                     /\ \A k \in 1..Len(draftRequests') :
                           draftRequests'[k].outcome # "awaited"]_vars

\* a run has ended in which the first draft failed and the second succeeded
C18_Witness ==
    /\ draftRun = None
    /\ Len(draftRequests) >= 2
    /\ draftRequests[1].outcome = "failed"
    /\ draftRequests[2].outcome = "drafted"
    /\ StatusOf(recipients, draftRequests[1].id) = "failed"
    /\ StatusOf(recipients, draftRequests[2].id) = "drafted"

(* ------------------ more properties of the draft route ---------------- *)

\* the LLM answered with a success status and a JSON body that holds no
\* content: no choices[0].message.content, a null one or an empty string
C21_LlmGaveNoContent ==
    /\ llmAnswer # None
    /\ llmAnswer[1].status >= 200
    /\ llmAnswer[1].status <= 299
    /\ llmAnswer[1].body.valid
    /\ llmAnswer[1].body.content \in {Undefined, Null, Str("")}

\* C21: when the LLM answers with success and no content (absent, null or
\* empty), the draft route replies with status 422 and the one-field error
\* "LLM did not return content", which is neither the could-not-parse error
\* nor the upstream-failure error, and JSON.parse is never called.
C21_NoContentReported ==
    C21_LlmGaveNoContent =>
        /\ parses = <<>>
        /\ draftPc \in {"json", "done", "threw"}
        /\ draftPc = "done" =>
            /\ draftReply # None
            /\ draftReply[1].status = 422
            /\ DOMAIN draftReply[1].json = {"error"}
            /\ draftReply[1].json.error = "LLM did not return content"
            /\ draftReply[1].json.error
                   \notin {"Could not parse model output", "Failed to draft email"}

\* the reply to a request whose LLM content was the empty string
C21_Witness ==
    /\ draftPc = "done"
    /\ llmAnswer # None
    /\ llmAnswer[1].status = 200
    /\ llmAnswer[1].body.content = Str("")
    /\ draftReply = Some([status |-> 422,
                          json |-> [error |-> "LLM did not return content"]])
    /\ parses = <<>>

\* C22: when the LLM answers with a status outside 200-299, the reply of the
\* draft route has that status, the error "Failed to draft email" and the
\* provider's body text as detail, and nothing else: no draft is returned and
\* nothing is parsed.
C22_UpstreamFailureSurfaced ==
    (draftPc = "done" /\ llmAnswer # None
        /\ (llmAnswer[1].status < 200 \/ llmAnswer[1].status > 299)) =>
        /\ draftReply # None
        /\ draftReply[1].status = llmAnswer[1].status
        /\ DOMAIN draftReply[1].json = {"error", "detail"}
        /\ draftReply[1].json.error = "Failed to draft email"
        /\ draftReply[1].json.detail = llmAnswer[1].body.raw
        /\ parses = <<>>

\* the reply to a request the LLM provider refused with 401
C22_Witness ==
    /\ draftPc = "done"
    /\ llmAnswer # None
    /\ llmAnswer[1].status = 401
    /\ llmAnswer[1].body.raw = "{\"error\":{\"message\":\"Incorrect API key\"}}"
    /\ draftReply[1].status = 401
    /\ draftReply[1].json.detail = "{\"error\":{\"message\":\"Incorrect API key\"}}"

\* the request has no recipient, or one without a name or without an email
C23_RecipientIncomplete ==
    \/ draftBody.recipient = None
    \/ draftBody.recipient[1].name \in {None, Some("")}
    \/ draftBody.recipient[1].email \in {None, Some("")}

\* C23: a draft request whose recipient is missing or has no name or no email
\* is answered with status 400 and an error, and the LLM provider is never
\* called for it; the error names the API key when that is missing too, and
\* the recipient otherwise.
C23_RecipientShortCircuits ==
    (draftPc # "idle" /\ C23_RecipientIncomplete) =>
        /\ llmCalls = <<>>
        /\ draftPc \in {"start", "done"}
        /\ draftPc = "done" =>
            /\ draftReply # None
            /\ draftReply[1].status = 400
            /\ DOMAIN draftReply[1].json = {"error"}
            /\ draftReply[1].json.error =
                  IF draftBody.openAiKey \in {None, Some("")}
                  THEN "Missing OpenAI API key"
                  ELSE "Recipient must include name and email"

\* the reply to a request with neither key nor recipient name
C23_Witness ==
    /\ draftPc = "done"
    /\ draftBody.openAiKey = None
    /\ draftBody.recipient = Some([name |-> Some(""), email |-> Some("ann@example.com")])
    /\ draftReply = Some([status |-> 400,
                          json |-> [error |-> "Missing OpenAI API key"]])
    /\ llmCalls = <<>>


\* ---------------------------------------------------------------------
\* More properties of the page
\* ---------------------------------------------------------------------

\* C24: across any sequence of draft and send runs no recipient is ever
\* successfully dispatched twice: no id is reported ok by two send runs.
\* handleDraftEmails re-drafts every recipient whatever its status, so a sent
\* recipient goes back to drafted and the next send run dispatches it again.
C24_NeverDispatchedTwice ==
    \A id \in DOMAIN delivered : delivered[id] <= 1


\* C25: under any interleaving of draft and send runs on the same automation
\* the automation's status is 'sending' whenever a send run is in flight,
\* 'drafting' whenever a draft run is in flight, and 'idle' only when no run
\* is in flight. The one status field is written by both handlers, so the
\* run that starts last overwrites it and the run that ends first sets idle.
C25_StatusTellsRunsInFlight ==
    /\ sendRun # None => automationStatus = "sending"
    /\ draftRun # None => automationStatus = "drafting"
    /\ automationStatus = "idle" => (sendRun = None /\ draftRun = None)


\* the step on which a send run ends
SendRunEnds == sendRun # None /\ sendRun' = None

\* C26: every send run that passed the pre-checks of handleSendEmails ends,
\* and it ends with status 'idle' and isSending false, whether the call gave
\* results, an error status or threw; when the call fails as a whole no
\* recipient changes (so no status and no lastError) and sendError is set.
C26_SendRunAlwaysEnds ==
    /\ [][SendRunEnds =>
            /\ automationStatus' = "idle"
            /\ ~isSending'
            /\ received' = <<>> => (recipients' = recipients /\ sendError' # None)]_vars
    /\ (sendRun # None) ~> (sendRun = None /\ automationStatus = "idle" /\ ~isSending)

\* a send run has ended with a failure of the whole call
C26_Witness ==
    /\ sendRun = None
    /\ sendRequests # <<>>
    /\ received = <<>>
    /\ sendError # None
    /\ ~isSending
    /\ automationStatus = "idle"
    /\ recipients # <<>>


\* C27: after any sequence of operations (draft runs, send runs, CSV
\* imports) the log holds at most 40 entries. (Newest first holds of every
\* writer: each puts its entry at the head.) handleCsvUpload unshifts its
\* entry without the slice(0, 40) of addLog.
C27_LogBounded ==
    Len(logs) <= LogLimit

\* C28: in every reachable state a recipient has a lastError exactly when
\* its status is failed, whatever created or updated it: the form, a CSV
\* import, a duplication, a draft run or a send run.
C28_LastErrorIffFailed ==
    \A k \in DOMAIN recipients :
        (recipients[k].lastError # Undefined) <=> (recipients[k].status = "failed")

\* an imported recipient has failed and carries the error, beside one that
\* was sent and carries none
C28_Witness ==
    /\ \E k \in DOMAIN recipients :
           /\ recipients[k].name = "Bob"
           /\ recipients[k].status = "failed"
           /\ recipients[k].lastError # Undefined
    /\ \E k \in DOMAIN recipients :
           recipients[k].status = "sent" /\ recipients[k].lastError = Undefined

====
